---- MODULE Spec2Model ----
(***************************************************************************)
(* Model of the BlackHole component: the GLSL fragment shader (hash13,     *)
(* rotateAround, starfield, diskColor, bendRay, intersectDisk, main) and   *)
(* the frame driver of the React effect (onResize, tick, cleanup).         *)
(*                                                                         *)
(* Shader floats are modelled as fixed-point integers: the integer n       *)
(* stands for the real n / Scale.  Products and quotients are rounded to   *)
(* the nearest unit, as float arithmetic rounds to the nearest value.      *)
(* A vector is a tuple <<x, y, z>> of such integers.                       *)
(***************************************************************************)
EXTENDS Integers, Sequences, FiniteSets, TLC

\* One unit of the fixed-point representation of "precision highp float".
Scale == 1000

----------------------------------------------------------------------------
(* Arithmetic of the shader language.                                      *)

Abs(a) == IF a < 0 THEN -a ELSE a
Max(a, b) == IF a >= b THEN a ELSE b
Min(a, b) == IF a <= b THEN a ELSE b

\* a * b, rounded; split so that no intermediate exceeds 32 bits.
MulSplit(a, b) == (a \div Scale) * b + ((a % Scale) * b + Scale \div 2) \div Scale
Mul(a, b) == IF Abs(a) >= Abs(b) THEN MulSplit(a, b) ELSE MulSplit(b, a)

DivPos(a, b) == (a \div b) * Scale + ((a % b) * Scale + b \div 2) \div b

\* a / b for b # 0, rounded.
Div(a, b) == IF b > 0 THEN DivPos(a, b) ELSE DivPos(-a, -b)

RECURSIVE ISqrtIter(_, _)
\* Newton's iteration from an x at or above the root, down to the floor of it
ISqrtIter(n, x) ==
    LET y == (x + n \div x) \div 2
    IN  IF y >= x THEN x ELSE ISqrtIter(n, y)

\* floor of the square root of the natural number n
ISqrt(n) ==
    IF n = 0 THEN 0
    ELSE ISqrtIter(n, IF n < 10000 THEN 100
                      ELSE IF n < 1000000 THEN 1000
                      ELSE IF n < 100000000 THEN 10000 ELSE 46340)

\* sqrt(a) of a fixed-point a >= 0
Sqrt(a) == ISqrt(a * Scale)

Clamp(x, lo, hi) == Min(Max(x, lo), hi)
Fract(x) == x % Scale
Floor(x) == (x \div Scale) * Scale
Mix(a, b, t) == Mul(a, Scale - t) + Mul(b, t)

RECURSIVE PowInt(_, _)
\* pow(x, n) for a natural exponent n, by squaring
PowInt(x, n) ==
    IF n = 0 THEN Scale
    ELSE IF n % 2 = 1 THEN Mul(PowInt(x, n - 1), x)
    ELSE LET h == PowInt(x, n \div 2) IN Mul(h, h)

\* the least element of the non-empty set S of integers
Least(S) == CHOOSE r \in S : \A q \in S : r <= q

\* floor(r^5 / Scale^2) for 0 <= r <= Scale, exactly, within 32 bits
Pow5(r) ==
    LET a1 == (r * r * r) \div Scale  a0 == (r * r * r) % Scale
        b1 == (r * r) \div Scale      b0 == (r * r) % Scale
    IN  a1 * b1 + (a1 * b0 + a0 * b1 + (a0 * b0) \div Scale) \div Scale

\* pow(t, 0.6) for 0 <= t <= 1: the fifth root of t^3, as the least r with
\* r^5 >= t^3 (r^5 is monotone in r: found among the multiples of 32 first)
Pow06(t) ==
    LET t3 == t * t * t
        top == Least({k \in 0..32 : Pow5(Min(32 * k, Scale)) >= t3})
    IN  IF top = 0 THEN 0
        ELSE Least({r \in (32 * top - 31)..Min(32 * top, Scale) : Pow5(r) >= t3})

\* cos and sin by their Taylor polynomials (angles of the model are < 1 rad)
Cos(a) ==
    LET a2 == Mul(a, a)  a4 == Mul(a2, a2)  a6 == Mul(a4, a2)
    IN  Scale - a2 \div 2 + a4 \div 24 - a6 \div 720

Sin(a) ==
    LET a2 == Mul(a, a)  a3 == Mul(a2, a)  a5 == Mul(a3, a2)  a7 == Mul(a5, a2)
    IN  a - a3 \div 6 + a5 \div 120 - a7 \div 5040

\* exp(-x) for x >= 0: e^-n for the integer part, Taylor for the fraction
ExpNeg(x) ==
    LET n == x \div Scale
        f == x % Scale
        f2 == Mul(f, f)  f3 == Mul(f2, f)  f4 == Mul(f3, f)  f5 == Mul(f4, f)
        tf == Scale - f + f2 \div 2 - f3 \div 6 + f4 \div 24 - f5 \div 120
    IN  IF n > 8 THEN 0 ELSE Mul(PowInt(368, n), tf)

\* The Hermite interpolation smoothstep computes.
SmoothstepF(e0, e1, x) ==
    LET t == Clamp(Div(x - e0, e1 - e0), 0, Scale)
    IN  Mul(Mul(t, t), 3 * Scale - 2 * t)

\* GLSL leaves smoothstep undefined when edge0 >= edge1; implementations
\* evaluate the polynomial of a clamped t, so the result stays in [0, 1].
SmoothstepOutcomes(e0, e1, x) ==
    IF e0 < e1 THEN {SmoothstepF(e0, e1, x)}
    ELSE {SmoothstepF(e0, e1, x), 0, Scale}

Dot(a, b) == Mul(a[1], b[1]) + Mul(a[2], b[2]) + Mul(a[3], b[3])
Cross(a, b) == << Mul(a[2], b[3]) - Mul(a[3], b[2]),
                  Mul(a[3], b[1]) - Mul(a[1], b[3]),
                  Mul(a[1], b[2]) - Mul(a[2], b[1]) >>
\* length(v); long vectors are measured in coarser units to stay in 32 bits
Length(v) ==
    LET k == Max(Abs(v[1]), Max(Abs(v[2]), Abs(v[3]))) \div 20000 + 1
        a == v[1] \div k  b == v[2] \div k  c == v[3] \div k
    IN  ISqrt(a * a + b * b + c * c) * k
Length2(x, y) == Length(<< x, y, 0 >>)
VAdd(a, b) == << a[1] + b[1], a[2] + b[2], a[3] + b[3] >>
VScale(a, k) == << Mul(a[1], k), Mul(a[2], k), Mul(a[3], k) >>
VMix(a, b, t) == << Mix(a[1], b[1], t), Mix(a[2], b[2], t), Mix(a[3], b[3], t) >>
Normalize(v) == LET l == Length(v) IN << Div(v[1], l), Div(v[2], l), Div(v[3], l) >>
Zero3 == << 0, 0, 0 >>
NonNeg(v) == v[1] >= 0 /\ v[2] >= 0 /\ v[3] >= 0

----------------------------------------------------------------------------
(* The shading functions.                                                  *)

hash13(p0) ==
    LET p == << Fract(Mul(p0[1], 318) + 100),
                Fract(Mul(p0[2], 318) + 200),
                Fract(Mul(p0[3], 318) + 300) >>
        d == Dot(p, << p[2] + 19190, p[3] + 19190, p[1] + 19190 >>)
        q == << p[1] + d, p[2] + d, p[3] + d >>
    IN  Fract(Mul(Mul(q[1], q[2]), q[3]))

rotateAround(v, axis, angle) ==
    LET c == Cos(angle)
        s == Sin(angle)
    IN  VAdd(VAdd(VScale(v, c), VScale(Cross(axis, v), s)),
             VScale(axis, Mul(Dot(axis, v), Scale - c)))

starfield(dir) ==
    LET n0 == Normalize(dir)
        p == << n0[1] * 123, n0[2] * 123, n0[3] * 123 >>
        d == SmoothstepF(995, 1000,
                 hash13(<< Floor(p[1] * 20), Floor(p[2] * 20), Floor(p[3] * 20) >>))
        m == IF d = 0 THEN 0 ELSE PowInt(d, 24)
        star == << 600 + Mul(400, hash13(<< p[1] + Scale, p[2] + Scale, p[3] + Scale >>)),
                   700 + Mul(300, hash13(<< p[1] + 2 * Scale, p[2] + 2 * Scale,
                                            p[3] + 2 * Scale >>)),
                   Scale >>
        n == hash13(<< Floor(dir[1] * 10), Floor(dir[2] * 10), Floor(dir[3] * 10) >>)
    IN  VAdd(VScale(star, m), << Mul(20, n), Mul(10, n), Mul(30, n) >>)

\* Literals of the shader.  A positive literal below the resolution of the
\* model is represented by one unit, so that it stays positive.
EpsBend == 1
EpsDisk == 1
EpsRadius == 1
EpsRedshift == 1
CritFactor == 2598

ImpactParameter(ro, rd) == Length(Cross(ro, rd))
CriticalB(rs) == Mul(CritFactor, rs)

\* diskColor with the inner cut taken at rs instead of diskInner
diskColorWrongInner(pos, dir, c) ==
    LET r == Length2(pos[1], pos[3])
    IN  IF r < c.rs \/ r > c.diskOuter THEN Zero3
        ELSE LET v == Clamp(Sqrt(Div(c.rs, 2 * r)), 0, 600)
                 tangential == Normalize(<< -pos[3], 0, pos[1] >>)
                 cosTheta == Dot(tangential, << -dir[1], -dir[2], -dir[3] >>)
                 doppler == Div(Scale, PowInt(Div(Scale - Mul(v, cosTheta),
                                                  Sqrt(Scale - Mul(v, v))), 3))
                 t == Clamp(Div(c.diskOuter - r, c.diskOuter - c.diskInner), 0, Scale)
                 base == VMix(<< 800, 400, 100 >>, << 1000, 950, 850 >>, Pow06(t))
             IN  VScale(VScale(base, doppler), 600)

diskColor(pos, dir, c) ==
    LET r == Length2(pos[1], pos[3])
    IN  IF r < c.diskInner \/ r > c.diskOuter THEN Zero3
        ELSE LET v == Clamp(Sqrt(Div(c.rs, 2 * r)), 0, 600)
                 tangential == Normalize(<< -pos[3], 0, pos[1] >>)
                 cosTheta == Dot(tangential, << -dir[1], -dir[2], -dir[3] >>)
                 doppler == Div(Scale, PowInt(Div(Scale - Mul(v, cosTheta),
                                                  Sqrt(Scale - Mul(v, v))), 3))
                 t == Clamp(Div(c.diskOuter - r, c.diskOuter - c.diskInner), 0, Scale)
                 base == VMix(<< 800, 400, 100 >>, << 1000, 950, 850 >>, Pow06(t))
             IN  VScale(VScale(base, doppler), 600)

\* The denominators diskColor divides by at pos (none when it returns early).
diskColorDenoms(pos, dir, c) ==
    LET r == Length2(pos[1], pos[3])
    IN  IF r < c.diskInner \/ r > c.diskOuter THEN {}
        ELSE LET v == Clamp(Sqrt(Div(c.rs, 2 * r)), 0, 600)
                 tangential == Normalize(<< -pos[3], 0, pos[1] >>)
                 cosTheta == Dot(tangential, << -dir[1], -dir[2], -dir[3] >>)
                 q == Div(Scale - Mul(v, cosTheta), Sqrt(Scale - Mul(v, v)))
             IN  { 2 * r, r, Sqrt(Scale - Mul(v, v)), PowInt(q, 3),
                   c.diskOuter - c.diskInner }

\* bendRay capturing the boundary ray too (b <= bc)
bendRayInclusive(ro, rd, rs_local) ==
    LET b == ImpactParameter(ro, rd)
        bc == CriticalB(rs_local)
    IN  IF b <= bc THEN [capture |-> Scale, dir |-> rd]
        ELSE LET alpha == Div(2 * rs_local, Max(b, EpsBend))
                 axis == Normalize(Cross(ro, rd))
             IN  [capture |-> 0, dir |-> rotateAround(rd, axis, alpha)]

\* The result is [capture, dir]: capture is the out parameter (1.0 or 0.0).
bendRay(ro, rd, rs_local) ==
    LET b == ImpactParameter(ro, rd)
        bc == CriticalB(rs_local)
    IN  IF b < bc THEN [capture |-> Scale, dir |-> rd]
        ELSE LET alpha == Div(2 * rs_local, Max(b, EpsBend))
                 axis == Normalize(Cross(ro, rd))
             IN  [capture |-> 0, dir |-> rotateAround(rd, axis, alpha)]

bendRayDenoms(ro, rd, rs_local) ==
    IF ImpactParameter(ro, rd) < CriticalB(rs_local) THEN {}
    ELSE { Max(ImpactParameter(ro, rd), EpsBend), Length(Cross(ro, rd)) }

intersectDiskDenom(rd) == rd[2] + EpsDisk

\* The values t can take: the quotient, or, when the denominator is zero, an
\* unspecified float (NaN or any number; GLSL does not define the result).
intersectDiskT(ro, rd) ==
    IF intersectDiskDenom(rd) # 0
    THEN {[nan |-> FALSE, t |-> Div(-ro[2], intersectDiskDenom(rd))]}
    ELSE {[nan |-> TRUE, t |-> 0]}
           \cup {[nan |-> FALSE, t |-> v] : v \in {-Scale, 0, Scale}}

\* The outcomes of intersectDisk: [hit] is the returned bool, [point] the out
\* parameter (written only on a hit; [nan] when its coordinates are NaN).
intersectDisk(ro, rd) ==
    { IF ~o.nan /\ o.t <= 0
      THEN [hit |-> FALSE, nan |-> FALSE, point |-> Zero3]
      ELSE [hit |-> TRUE, nan |-> o.nan,
            point |-> IF o.nan THEN Zero3 ELSE VAdd(ro, VScale(rd, o.t))]
      : o \in intersectDiskT(ro, rd) }

----------------------------------------------------------------------------
(* The steps of main, as functions of the values they read.                *)

\* gl_FragCoord of the fragment with index i on one axis: the pixel centre
FragCoord(i) == i * Scale + Scale \div 2

\* (gl_FragCoord.xy / iResolution.xy) * 2.0 - 1.0, on one axis
Ndc(i, n) == 2 * Div(FragCoord(i), n * Scale) - Scale

MainUv(frag, res) ==
    << Mul(Ndc(frag[1], res[1]), Div(res[1] * Scale, res[2] * Scale)),
       Ndc(frag[2], res[2]) >>

CameraOrigin(c) == << 0, 0, c.camDistance >>
CameraRay(uv) == Normalize(<< uv[1], uv[2], -1500 >>)
RayDenoms(uv, res) == { res[1] * Scale, res[2] * Scale, Length(<< uv[1], uv[2], -1500 >>) }

\* The colour of the captured branch (rgb and alpha)
ShadowColor(ro, rd, rs) ==
    LET b == ImpactParameter(ro, rd)
        bc == CriticalB(rs)
        edge == SmoothstepF(Mul(bc, 900), Mul(bc, 1050), b)
        f == Scale - Mul(Scale - edge, 60)
    IN  << Mul(0, f), Mul(0, f), Mul(0, f), Mul(Scale, f) >>

Redshift(r, rs) == Sqrt(Max(Scale - Div(rs, Max(r, EpsRadius)), EpsRedshift))

\* The disk blended over col at a hit point with radius r > 1.05 rs
BlendDisk(col, point, rd2, c, s) ==
    LET r == Length2(point[1], point[3])
        dcol == VScale(diskColor(point, rd2, c), Redshift(r, c.rs))
    IN  VMix(col, dcol, Mul(s, 850))

GlowColor(col, ro, rd, rs) ==
    LET b == ImpactParameter(ro, rd)
        bc == CriticalB(rs)
        ring == ExpNeg(30 * Abs(b - bc))
    IN  VAdd(col, VScale(VScale(<< 1000, 900, 700 >>, ring), 350))

\* the vignette written as a factor vig - 0.4
VignetteColorSlip(col, v) == VScale(col, v - 400)

VignetteColor(col, v) == VScale(col, Mix(600, 1000, v))

ToneMap(col) == << Div(col[1], col[1] + Scale), Div(col[2], col[2] + Scale),
                   Div(col[3], col[3] + Scale) >>

----------------------------------------------------------------------------
(* Bounds and inputs of the model.                                         *)

MaxWidth == 4
MaxHeight == 3

DefaultConfig == [rs |-> 1000, camDistance |-> 8000, diskInner |-> 1200, diskOuter |-> 8000]

\* Valid configurations: 0 < rs < diskInner < diskOuter
Configs == { DefaultConfig,
             [rs |-> 1000, camDistance |-> 8000, diskInner |-> 2000, diskOuter |-> 6000],
             [rs |-> 500, camDistance |-> 6000, diskInner |-> 1000, diskOuter |-> 4000] }

\* window.devicePixelRatio, in halves (2 is 1.0, 3 is 1.5, ... )
DevicePixelRatios == {2, 3, 4, 6}

\* Math.min(window.devicePixelRatio, 2), in halves
PixelRatio(dpr) == Min(dpr, 4)

\* The drawing buffer WebGLRenderer.setSize allocates for a logical size n:
\* Math.floor(n * pixelRatio)
DrawingBuffer(n, pr) == (n * pr) \div 2

Sizes == (1..MaxWidth) \X (1..MaxHeight)

----------------------------------------------------------------------------
(* One frame of the fragment stage: main runs once per fragment of the     *)
(* drawing buffer, under the uniforms the driver has set.                  *)

\* The fragment stage: uniforms of the frame (cfg, res), the drawing buffer
\* and the fragment being shaded, the locals of main, gl_FragColor (out);
\* stages records the steps main has run for the fragment, divZero whether a
\* division had a zero denominator, diskEvals the diskColor calls of the frame,
\* lensed whether a fragment of the frame took the non-captured path.
VARIABLES cfg, res, buf, frag, pc, uv, rd, rd2, captured, bg, col, hit, vig, out,
          stages, divZero, diskEvals, lensed

pixelVars == << cfg, res, buf, frag, pc, uv, rd, rd2, captured, bg, col, hit, vig, out,
                stages, divZero, diskEvals, lensed >>

\* A function call of the harness: its arguments and what it returned.
VARIABLES fn, argP, argD, argC, ret, fnDivZero

fnVars == << fn, argP, argD, argC, ret, fnDivZero >>

\* The driver: the container, the renderer and its canvas, the uniforms, the
\* refs, the browser's list of requested animation frames and event queue.
VARIABLES client, pixelRatio, size, canvas, iResolution, iTime,
          rendererRef, materialRef, sceneRef, cameraRef,
          listening, raf, pending, nextHandle, resizeQueued,
          phase, dpc, tickArg, clock, frames, lastRender

driverVars == << client, pixelRatio, size, canvas, iResolution, iTime,
                 rendererRef, materialRef, sceneRef, cameraRef,
                 listening, raf, pending, nextHandle, resizeQueued,
                 phase, dpc, tickArg, clock, frames, lastRender >>

vars == << pixelVars, fnVars, driverVars >>
otherThanPixel == << fnVars, driverVars >>
otherThanFn == << pixelVars, driverVars >>
otherThanDriver == << pixelVars, fnVars >>


NoHit == [hit |-> FALSE, nan |-> FALSE, point |-> Zero3]

frameVars == << cfg, res, buf, frag, diskEvals, lensed >>

\* lines 130-135: uv mapping and camera ray
RaySetup ==
    /\ pc = "ray"
    /\ uv' = MainUv(frag, res)
    /\ rd' = CameraRay(uv')
    /\ divZero' = (divZero \/ 0 \in RayDenoms(uv', res))
    /\ stages' = {"ray"}
    /\ pc' = "bend"
    /\ UNCHANGED << frameVars, rd2, captured, bg, col, hit, vig, out >>
    /\ UNCHANGED otherThanPixel

\* lines 138-139
Bend ==
    /\ pc = "bend"
    /\ LET r == bendRay(CameraOrigin(cfg), rd, cfg.rs)
       IN  /\ rd2' = r.dir
           /\ captured' = r.capture
           /\ pc' = IF r.capture > Scale \div 2 THEN "shadow" ELSE "background"
    /\ divZero' = (divZero \/ 0 \in bendRayDenoms(CameraOrigin(cfg), rd, cfg.rs))
    /\ stages' = stages \cup {"bend"}
    /\ UNCHANGED << frameVars, uv, rd, bg, col, hit, vig, out >>
    /\ UNCHANGED otherThanPixel

\* the captured branch without its return
ShadowFallThrough ==
    /\ pc = "shadow"
    /\ out' = ShadowColor(CameraOrigin(cfg), rd, cfg.rs)
    /\ stages' = stages \cup {"shadow"}
    /\ pc' = "background"
    /\ UNCHANGED << frameVars, uv, rd, rd2, captured, bg, col, hit, vig, divZero >>
    /\ UNCHANGED otherThanPixel

\* lines 142-149: the captured branch writes gl_FragColor and returns
Shadow ==
    /\ pc = "shadow"
    /\ out' = ShadowColor(CameraOrigin(cfg), rd, cfg.rs)
    /\ stages' = stages \cup {"shadow"}
    /\ pc' = "done"
    /\ UNCHANGED << frameVars, uv, rd, rd2, captured, bg, col, hit, vig, divZero >>
    /\ UNCHANGED otherThanPixel

\* the background sampled along the unbent direction
BackgroundUnbent ==
    /\ pc = "background"
    /\ bg' = starfield(rd)
    /\ col' = bg'
    /\ divZero' = (divZero \/ Length(rd) = 0)
    /\ stages' = stages \cup {"starfield"}
    /\ lensed' = TRUE
    /\ pc' = "disk"
    /\ UNCHANGED << cfg, res, buf, frag, diskEvals, uv, rd, rd2, captured, hit, vig, out >>
    /\ UNCHANGED otherThanPixel

\* lines 152-156
Background ==
    /\ pc = "background"
    /\ bg' = starfield(rd2)
    /\ col' = bg'
    /\ divZero' = (divZero \/ Length(rd2) = 0)
    /\ stages' = stages \cup {"starfield"}
    /\ lensed' = TRUE
    /\ pc' = "disk"
    /\ UNCHANGED << cfg, res, buf, frag, diskEvals, uv, rd, rd2, captured, hit, vig, out >>
    /\ UNCHANGED otherThanPixel

\* lines 157-169
DiskBlend ==
    /\ pc = "disk"
    /\ \E o \in intersectDisk(CameraOrigin(cfg), rd2) :
         /\ hit' = o
         /\ IF o.hit /\ ~o.nan
                /\ Length2(o.point[1], o.point[3]) > Mul(1050, cfg.rs)
            THEN /\ \E s \in SmoothstepOutcomes(cfg.diskOuter, cfg.diskInner,
                                                Length2(o.point[1], o.point[3])) :
                        col' = BlendDisk(col, o.point, rd2, cfg, s)
                 /\ diskEvals' = diskEvals + 1
                 /\ stages' = stages \cup {"intersect", "diskColor"}
                 /\ divZero' = (divZero \/ intersectDiskDenom(rd2) = 0
                                  \/ 0 \in diskColorDenoms(o.point, rd2, cfg))
            ELSE /\ UNCHANGED << col, diskEvals >>
                 /\ stages' = stages \cup {"intersect"}
                 /\ divZero' = (divZero \/ intersectDiskDenom(rd2) = 0)
    /\ pc' = "glow"
    /\ UNCHANGED << cfg, res, buf, frag, lensed, uv, rd, rd2, captured, bg, vig, out >>
    /\ UNCHANGED otherThanPixel

\* lines 172-175
Glow ==
    /\ pc = "glow"
    /\ col' = GlowColor(col, CameraOrigin(cfg), rd, cfg.rs)
    /\ stages' = stages \cup {"glow"}
    /\ pc' = "vignette"
    /\ UNCHANGED << frameVars, uv, rd, rd2, captured, bg, hit, vig, out, divZero >>
    /\ UNCHANGED otherThanPixel

\* lines 178-179
Vignette ==
    /\ pc = "vignette"
    /\ vig' \in SmoothstepOutcomes(1400, 100, Length2(uv[1], uv[2]))
    /\ col' = VignetteColor(col, vig')
    /\ stages' = stages \cup {"vignette"}
    /\ pc' = "tonemap"
    /\ UNCHANGED << frameVars, uv, rd, rd2, captured, bg, hit, out, divZero >>
    /\ UNCHANGED otherThanPixel

\* lines 182-184
ToneMapStep ==
    /\ pc = "tonemap"
    /\ divZero' = (divZero \/ \E i \in 1..3 : col[i] + Scale = 0)
    /\ out' = IF \E i \in 1..3 : col[i] + Scale = 0 THEN << 0, 0, 0, Scale >>
              ELSE ToneMap(col) \o << Scale >>
    /\ stages' = stages \cup {"tonemap"}
    /\ pc' = "done"
    /\ UNCHANGED << frameVars, uv, rd, rd2, captured, bg, col, hit, vig >>
    /\ UNCHANGED otherThanPixel

\* The rasteriser moves on to the next fragment of the drawing buffer.
NextFragment ==
    /\ pc = "done"
    /\ IF frag[1] + 1 < buf[1] THEN frag' = << frag[1] + 1, frag[2] >> /\ pc' = "ray"
       ELSE IF frag[2] + 1 < buf[2] THEN frag' = << 0, frag[2] + 1 >> /\ pc' = "ray"
       ELSE frag' = frag /\ pc' = "frame_done"
    /\ uv' = << 0, 0 >> /\ rd' = Zero3 /\ rd2' = Zero3 /\ captured' = 0
    /\ bg' = Zero3
    /\ col' = Zero3 /\ hit' = NoHit /\ vig' = 0 /\ out' = << 0, 0, 0, 0 >>
    /\ stages' = {}
    /\ UNCHANGED << cfg, res, buf, diskEvals, lensed, divZero >>
    /\ UNCHANGED otherThanPixel

----------------------------------------------------------------------------
(* The shading functions called on their own, on inputs drawn from a grid. *)

Coords == {-3000, 0, 1200, 2598, 8000}
Points == Coords \X Coords \X Coords

\* Unit directions (of length 1 at the resolution of the model)
Dirs == { << 1000, 0, 0 >>, << -1000, 0, 0 >>, << 0, 1000, 0 >>, << 0, -1000, 0 >>,
          << 0, 0, 1000 >>, << 0, 0, -1000 >>, << 600, 0, -800 >>, << 0, -600, -800 >>,
          << 0, 600, 800 >>, << -800, 600, 0 >>, << 408, 408, -817 >>,
          << 0, -1, -1000 >>, << 0, 1, -1000 >>, << 577, -577, 577 >> }


CallBendRay ==
    /\ fn = "none"
    /\ fn' = "bendRay"
    /\ ret' = bendRay(argP, argD, argC.rs)
    /\ fnDivZero' = (0 \in bendRayDenoms(argP, argD, argC.rs))
    /\ UNCHANGED << argP, argD, argC >>
    /\ UNCHANGED otherThanFn

CallIntersectDisk ==
    /\ fn = "none"
    /\ fn' = "intersectDisk"
    /\ ret' \in intersectDisk(argP, argD)
    /\ fnDivZero' = (intersectDiskDenom(argD) = 0)
    /\ UNCHANGED << argP, argD, argC >>
    /\ UNCHANGED otherThanFn

CallDiskColor ==
    /\ fn = "none"
    /\ fn' = "diskColor"
    /\ ret' = diskColor(argP, argD, argC)
    /\ fnDivZero' = (0 \in diskColorDenoms(argP, argD, argC))
    /\ UNCHANGED << argP, argD, argC >>
    /\ UNCHANGED otherThanFn

----------------------------------------------------------------------------
(* The frame driver: the effect of the component (lines 12-229).  Handlers *)
(* run to completion; the browser runs one at a time.                      *)

MaxFrames == 2
MaxTime == 2

NoRender == [iResolution |-> << 0, 0 >>, size |-> << 0, 0 >>, canvas |-> << 0, 0 >>,
             client |-> << 0, 0 >>, iTime |-> 0, t |-> 0]

\* WebGLRenderer.setSize(w, h) under the renderer's pixel ratio
SetSizeCanvas(w, h, pr) == << DrawingBuffer(w, pr), DrawingBuffer(h, pr) >>

\* The window is resized: the container gets a new client size and the
\* browser queues a resize event for the window.
WindowResize ==
    /\ dpc = "idle"
    /\ \E s \in Sizes : s # client /\ client' = s
    /\ resizeQueued' = TRUE
    /\ UNCHANGED << pixelRatio, size, canvas, iResolution, iTime, rendererRef,
                    materialRef, sceneRef, cameraRef, listening, raf, pending,
                    nextHandle, phase, dpc, tickArg, clock, frames, lastRender >>
    /\ UNCHANGED otherThanDriver

\* onResize resizing the renderer but not the uniform
onResizeSizeOnly ==
    /\ dpc = "idle"
    /\ resizeQueued
    /\ resizeQueued' = FALSE
    /\ IF listening /\ rendererRef /\ materialRef
       THEN /\ size' = client
            /\ canvas' = SetSizeCanvas(client[1], client[2], pixelRatio)
       ELSE UNCHANGED << size, canvas >>
    /\ UNCHANGED << client, pixelRatio, iResolution, iTime, rendererRef, materialRef,
                    sceneRef, cameraRef, listening, raf, pending, nextHandle, phase,
                    dpc, tickArg, clock, frames, lastRender >>
    /\ UNCHANGED otherThanDriver

\* lines 198-204, run by the resize event (when the listener is registered)
onResize ==
    /\ dpc = "idle"
    /\ resizeQueued
    /\ resizeQueued' = FALSE
    /\ IF listening /\ rendererRef /\ materialRef
       THEN /\ size' = client
            /\ canvas' = SetSizeCanvas(client[1], client[2], pixelRatio)
            /\ iResolution' = client
       ELSE UNCHANGED << size, canvas, iResolution >>
    /\ UNCHANGED << client, pixelRatio, iTime, rendererRef, materialRef, sceneRef,
                    cameraRef, listening, raf, pending, nextHandle, phase, dpc,
                    tickArg, clock, frames, lastRender >>
    /\ UNCHANGED otherThanDriver

\* lines 206-208: the browser runs a requested animation frame callback with
\* the current time; resize events of the frame are dispatched before it.
tick ==
    /\ dpc = "idle"
    /\ ~resizeQueued
    /\ frames < MaxFrames
    /\ \E h \in pending, t \in clock..Min(clock + 1, MaxTime) :
         /\ pending' = pending \ {h}
         /\ clock' = t
         /\ IF rendererRef /\ sceneRef /\ cameraRef /\ materialRef
            THEN /\ iTime' = Mul(t * Scale, 1)
                 /\ tickArg' = t
                 /\ dpc' = "render"
            ELSE UNCHANGED << iTime, tickArg, dpc >>
    /\ UNCHANGED << client, pixelRatio, size, canvas, iResolution, rendererRef,
                    materialRef, sceneRef, cameraRef, listening, raf, nextHandle,
                    resizeQueued, phase, frames, lastRender >>
    /\ UNCHANGED otherThanDriver

\* lines 209-210: render the frame, then request the next one
tickRender ==
    /\ dpc = "render"
    /\ frames' = frames + 1
    /\ lastRender' = [iResolution |-> iResolution, size |-> size, canvas |-> canvas,
                      client |-> client, iTime |-> iTime, t |-> tickArg]
    /\ raf' = nextHandle
    /\ pending' = pending \cup {nextHandle}
    /\ nextHandle' = nextHandle + 1
    /\ dpc' = "idle"
    /\ UNCHANGED << client, pixelRatio, size, canvas, iResolution, iTime, rendererRef,
                    materialRef, sceneRef, cameraRef, listening, resizeQueued,
                    phase, tickArg, clock >>
    /\ UNCHANGED otherThanDriver

\* the cleanup without cancelAnimationFrame
cleanupNoCancel ==
    /\ dpc = "idle"
    /\ phase = "mounted"
    /\ listening' = FALSE
    /\ rendererRef' = FALSE
    /\ materialRef' = FALSE
    /\ sceneRef' = FALSE
    /\ cameraRef' = FALSE
    /\ phase' = "torn_down"
    /\ UNCHANGED << client, pixelRatio, size, canvas, iResolution, iTime, raf, pending,
                    nextHandle, resizeQueued, dpc, tickArg, clock, frames, lastRender >>
    /\ UNCHANGED otherThanDriver

\* lines 217-228: the cleanup function of the effect
cleanup ==
    /\ dpc = "idle"
    /\ phase = "mounted"
    /\ pending' = pending \ {raf}
    /\ listening' = FALSE
    /\ rendererRef' = FALSE
    /\ materialRef' = FALSE
    /\ sceneRef' = FALSE
    /\ cameraRef' = FALSE
    /\ phase' = "torn_down"
    /\ UNCHANGED << client, pixelRatio, size, canvas, iResolution, iTime, raf,
                    nextHandle, resizeQueued, dpc, tickArg, clock, frames, lastRender >>
    /\ UNCHANGED otherThanDriver

PixelNext ==
    \/ RaySetup
    \/ Bend
    \/ Shadow
    \/ Background
    \/ DiskBlend
    \/ Glow
    \/ Vignette
    \/ ToneMapStep
    \/ NextFragment

FnNext ==
    \/ CallBendRay
    \/ CallIntersectDisk
    \/ CallDiskColor

Next ==
    \/ WindowResize
    \/ onResize
    \/ tick
    \/ tickRender
    \/ cleanup

\* The state when the effect body has run (lines 13-215): the renderer is
\* sized to the container, onResize has run once, the first frame is requested.
Init ==
    /\ client \in Sizes
    /\ \E dpr \in DevicePixelRatios : pixelRatio = PixelRatio(dpr)
    /\ size = client
    /\ canvas = SetSizeCanvas(client[1], client[2], pixelRatio)
    /\ iResolution = client
    /\ iTime = 0
    /\ rendererRef = TRUE /\ materialRef = TRUE /\ sceneRef = TRUE /\ cameraRef = TRUE
    /\ listening = TRUE
    /\ raf = 1
    /\ pending = {1}
    /\ nextHandle = 2
    /\ resizeQueued = FALSE
    /\ phase = "mounted"
    /\ dpc = "idle"
    /\ tickArg = 0
    /\ clock = 0
    /\ frames = 0
    /\ lastRender = NoRender
    /\ cfg = DefaultConfig /\ res = << 1, 1 >> /\ buf = << 1, 1 >> /\ frag = << 0, 0 >>
    /\ pc = "frame_done" /\ uv = << 0, 0 >> /\ rd = Zero3 /\ rd2 = Zero3
    /\ captured = 0 /\ bg = Zero3 /\ col = Zero3 /\ hit = NoHit /\ vig = 0
    /\ out = << 0, 0, 0, 0 >> /\ stages = {} /\ divZero = FALSE /\ diskEvals = 0
    /\ lensed = FALSE
    /\ fn = "none" /\ argP = Zero3 /\ argD = Zero3 /\ argC = DefaultConfig
    /\ ret = Zero3 /\ fnDivZero = FALSE

\* A frame starts at the first fragment, under any uniforms the driver sets.
PixelInit ==
    /\ cfg \in Configs
    /\ res \in Sizes
    /\ \E dpr \in DevicePixelRatios :
           buf = << DrawingBuffer(res[1], PixelRatio(dpr)),
                    DrawingBuffer(res[2], PixelRatio(dpr)) >>
    /\ frag = << 0, 0 >>
    /\ pc = "ray"
    /\ uv = << 0, 0 >>
    /\ rd = Zero3
    /\ rd2 = Zero3
    /\ captured = 0
    /\ bg = Zero3
    /\ col = Zero3
    /\ hit = NoHit
    /\ vig = 0
    /\ out = << 0, 0, 0, 0 >>
    /\ stages = {}
    /\ divZero = FALSE
    /\ diskEvals = 0
    /\ lensed = FALSE
    /\ fn = "none" /\ argP = Zero3 /\ argD = Zero3 /\ argC = DefaultConfig
    /\ ret = Zero3 /\ fnDivZero = FALSE
    /\ client = << 1, 1 >> /\ pixelRatio = 2 /\ size = << 1, 1 >> /\ canvas = << 1, 1 >>
    /\ iResolution = << 1, 1 >> /\ iTime = 0
    /\ rendererRef = FALSE /\ materialRef = FALSE /\ sceneRef = FALSE /\ cameraRef = FALSE
    /\ listening = FALSE /\ raf = 0 /\ pending = {} /\ nextHandle = 1
    /\ resizeQueued = FALSE /\ phase = "torn_down" /\ dpc = "idle" /\ tickArg = 0
    /\ clock = 0 /\ frames = 0 /\ lastRender = NoRender

\* Any arguments of the grid, before the call.
FnInit ==
    /\ fn = "none"
    /\ argP \in Points
    /\ argD \in Dirs
    /\ argC \in Configs
    /\ ret = Zero3
    /\ fnDivZero = FALSE
    /\ cfg = DefaultConfig /\ res = << 1, 1 >> /\ buf = << 1, 1 >> /\ frag = << 0, 0 >>
    /\ pc = "frame_done" /\ uv = << 0, 0 >> /\ rd = Zero3 /\ rd2 = Zero3
    /\ captured = 0 /\ bg = Zero3 /\ col = Zero3 /\ hit = NoHit /\ vig = 0
    /\ out = << 0, 0, 0, 0 >> /\ stages = {} /\ divZero = FALSE /\ diskEvals = 0
    /\ lensed = FALSE
    /\ client = << 1, 1 >> /\ pixelRatio = 2 /\ size = << 1, 1 >> /\ canvas = << 1, 1 >>
    /\ iResolution = << 1, 1 >> /\ iTime = 0
    /\ rendererRef = FALSE /\ materialRef = FALSE /\ sceneRef = FALSE /\ cameraRef = FALSE
    /\ listening = FALSE /\ raf = 0 /\ pending = {} /\ nextHandle = 1
    /\ resizeQueued = FALSE /\ phase = "torn_down" /\ dpc = "idle" /\ tickArg = 0
    /\ clock = 0 /\ frames = 0 /\ lastRender = NoRender

----------------------------------------------------------------------------
(* The claims.                                                             *)

\* C1: bendRay decides capture by the impact parameter alone: with
\* b = |o x d| and b_c = (3 sqrt(3) / 2) rs, it sets capture = 1 and returns d
\* unchanged when b < b_c, and sets capture = 0 when b >= b_c.
BendRayCapturesBelowCritical ==
    fn = "bendRay" =>
        LET b == ImpactParameter(argP, argD)
            bc == CriticalB(argC.rs)
        IN  /\ b < bc => ret.capture = Scale /\ ret.dir = argD
            /\ b >= bc => ret.capture = 0

\* a ray exactly on the boundary b = b_c, which is not captured
BoundaryRayNotCaptured ==
    /\ fn = "bendRay"
    /\ ImpactParameter(argP, argD) = CriticalB(argC.rs)
    /\ ret.capture = 0

\* C2: every captured fragment (b < b_c) gets a colour whose r, g and b are
\* at most 0.06, and main returns before the starfield, disk, glow, vignette
\* and tone-mapping steps.
CapturedIsShadowOnly ==
    (pc = "done" /\ ImpactParameter(CameraOrigin(cfg), rd) < CriticalB(cfg.rs)) =>
        /\ \A i \in 1..3 : 0 <= out[i] /\ out[i] <= 60
        /\ "shadow" \in stages
        /\ stages \cap {"starfield", "intersect", "diskColor", "glow", "vignette",
                        "tonemap"} = {}

\* the fragment at the exact centre of the screen under the default configuration
CentreFragmentCaptured ==
    /\ pc = "done"
    /\ cfg = DefaultConfig
    /\ uv = << 0, 0 >>
    /\ rd = << 0, 0, -1000 >>
    /\ ImpactParameter(CameraOrigin(cfg), rd) = 0
    /\ "shadow" \in stages

\* C3: under the default configuration a frame has a non-captured fragment
\* for which intersectDisk reports a hit with r > 1.05 rs, so that diskColor
\* is evaluated.
DiskPathReached ==
    (pc = "frame_done" /\ cfg = DefaultConfig /\ lensed) => diskEvals > 0

\* C4: when intersectDisk reports no hit for a non-captured fragment, the
\* colour entering the glow step is the background bg = starfield(bent
\* direction), and the output is that colour after glow, vignette and tone
\* mapping: diskInner and diskOuter play no part.
MissKeepsStarfield ==
    /\ (pc = "glow" /\ ~hit.hit) => (bg = starfield(rd2) /\ col = bg)
    /\ (pc = "done" /\ captured = 0 /\ ~hit.hit) =>
           /\ col = VignetteColor(GlowColor(bg, CameraOrigin(cfg), rd, cfg.rs), vig)
           /\ out = ToneMap(col) \o << Scale >>

\* a finished fragment far outside the shadow whose bent ray misses the disk
FarMissFinished ==
    /\ pc = "done"
    /\ captured = 0
    /\ ~hit.hit
    /\ ImpactParameter(CameraOrigin(cfg), rd) >= 2 * CriticalB(cfg.rs)
    /\ rd2 # rd
    /\ "tonemap" \in stages

\* C5: diskColor returns exactly (0,0,0) when r = |p.xz| is below diskInner
\* or above diskOuter, and a colour with no negative channel otherwise.
DiskColorZeroOutsideAnnulus ==
    fn = "diskColor" =>
        LET r == Length2(argP[1], argP[3])
        IN  /\ (r < argC.diskInner \/ r > argC.diskOuter) => ret = Zero3
            /\ (argC.diskInner <= r /\ r <= argC.diskOuter) => NonNeg(ret)

\* a point between rs and diskInner, where the disk does not emit
InsideInnerEdgeIsDark ==
    /\ fn = "diskColor"
    /\ Length2(argP[1], argP[3]) >= argC.rs
    /\ Length2(argP[1], argP[3]) < argC.diskInner
    /\ ret = Zero3

\* C6: for a non-captured fragment no channel is negative from the
\* background to the input of the tone map, and each emitted channel
\* col / (col + 1) lies in [0, 1).
ColourBounded ==
    /\ pc \in {"disk", "glow", "vignette", "tonemap"} => NonNeg(col)
    /\ (pc = "done" /\ captured = 0) =>
           \A i \in 1..3 : 0 <= out[i] /\ out[i] < Scale

\* a finished non-captured fragment with light in it, darkened by the vignette
LitFragmentFinished ==
    /\ pc = "done"
    /\ captured = 0
    /\ vig < Scale
    /\ \A i \in 1..3 : col[i] > 0 /\ out[i] > 0

\* C7: after the cleanup no frame is rendered and no animation frame is
\* requested or left pending; while mounted the one pending request is the one
\* whose handle raf holds.
TeardownStopsFrames ==
    /\ [][phase = "torn_down" =>
            /\ pending = {} /\ pending' = {}
            /\ frames' = frames
            /\ dpc' = "idle"]_vars
    /\ [](phase = "mounted" /\ dpc = "idle" => pending = {raf})

\* torn down after a frame was rendered, with a resize event still to come
TornDownAfterFrame ==
    /\ phase = "torn_down"
    /\ frames > 0
    /\ resizeQueued

\* C8: at every render iResolution equals the size last given to setSize,
\* which is the container's current client size (the resize event of a
\* window resize has run by then), and iTime holds the time of this frame.
RenderSeesCoherentUniforms ==
    /\ dpc = "render" =>
           /\ iResolution = size
           /\ size = client
           /\ iTime = Mul(tickArg * Scale, 1)
    /\ frames > 0 =>
           /\ lastRender.iResolution = lastRender.size
           /\ lastRender.size = lastRender.client
           /\ lastRender.iTime = Mul(lastRender.t * Scale, 1)

\* a frame about to be rendered at another size than the frame before it
RenderAfterResize ==
    /\ dpc = "render"
    /\ frames > 0
    /\ lastRender.size # size
    /\ tickArg > lastRender.t

FragmentsMapIntoNdc ==
    dpc = "render" =>
        /\ canvas = iResolution
        /\ \A i \in 0..(canvas[1] - 1) : Abs(Ndc(i, iResolution[1])) <= Scale
        /\ \A j \in 0..(canvas[2] - 1) : Abs(Ndc(j, iResolution[2])) <= Scale

\* The frame driver
Spec == Init /\ [][Next]_vars

\* One frame of the fragment stage
SpecPixel == PixelInit /\ [][PixelNext]_vars

\* The shading functions on their own
SpecFn == FnInit /\ [][FnNext]_vars
====
